---- MODULE Spec2Model ----
(***************************************************************************)
(* Model of the MCP gateway of minimalart/mcp-medusa: the tool registry    *)
(* (lib/tools.js), the JSON-RPC codec (lib/jsonrpc.js), the serverless     *)
(* dispatchers (api/mcp/index.js, api/mcp/tools.js) and the STDIO          *)
(* tools/call handler (mcpServer.js).                                      *)
(*                                                                         *)
(* A JavaScript handler runs to completion between two awaits, so every    *)
(* action below is one such synchronous stretch of one request.            *)
(***************************************************************************)
EXTENDS Naturals, Integers, Sequences, FiniteSets, TLC

(* ----------------------------- bounds --------------------------------- *)
\* Number of entries of the static tool-source list (tools/paths.js).
NumSources == 2
\* Number of requests that may be in flight at the same time.
MaxReq == 2
\* Number of discovery passes one behaviour may start.
MaxPasses == 2
\* Number of times the wall clock advances in one behaviour.
MaxTicks == 2
\* Number of times a tool module on disk changes in one behaviour.
MaxEnvChanges == 1
\* Number of elements of a posted JSON array.
MaxBatch == 2
\* Number of session ids the session store generates in one behaviour.
MaxSessions == 1
MaxMinted == 2

(* ------------------------- program constants -------------------------- *)
CACHE_TTL == 5 * 60 * 1000

PARSE_ERROR == -32700
INVALID_REQUEST == -32600
METHOD_NOT_FOUND == -32601
INVALID_PARAMS == -32602
INTERNAL_ERROR == -32603

HTTP_OK == 200
HTTP_NO_CONTENT == 204
HTTP_BAD_REQUEST == 400
HTTP_UNAUTHORIZED == 401
HTTP_METHOD_NOT_ALLOWED == 405
HTTP_INTERNAL_SERVER_ERROR == 500

(* --------------------------- JavaScript values ------------------------ *)
\* null and undefined; arrays carry the identity of the allocation that
\* made them, because the code compares arrays with ===.
Null == [tag |-> "null"]
Undefined == "undefined"
JsonNull == "null"

Sources == 1 .. NumSources
Slots == 1 .. MaxReq

\* The definition.name of the apiTool each source file exports.
SourceNames == <<"manage_a", "manage_b", "manage_c", "manage_d">>
ToolName(i) == SourceNames[i]

\* definition.parameters.required of the apiTool of source i: the tools of
\* the repository require "action"; a tool may also require nothing.
Required(i) == IF i % 2 = 1 THEN <<"action">> ELSE << >>

\* What importing a source file yields: a module with apiTool, a module
\* without the apiTool export, or a rejected import.
LoadStatus == {"ok", "noexport", "throws"}

(* ------------------------------ registry ------------------------------ *)
\* The cache test without its forceRefresh conjunct.
CacheValidIgnoringForce(forceRefresh, cache, timestamp, now) ==
    /\ cache # Null
    /\ (now - timestamp) < CACHE_TTL

\* The cache test with an age of exactly CACHE_TTL still taken as fresh.
CacheValidInclusive(forceRefresh, cache, timestamp, now) ==
    /\ ~forceRefresh
    /\ cache # Null
    /\ (now - timestamp) <= CACHE_TTL

\* lib/tools.js:20, the cache test of discoverTools.
CacheValid(forceRefresh, cache, timestamp, now) ==
    /\ ~forceRefresh
    /\ cache # Null
    /\ (now - timestamp) < CACHE_TTL

\* lib/tools.js:25-40, the result of one element of toolPromises: the tool
\* (named by its source index) or null. A rejected import and a missing
\* export both yield null.
LoadTool(status, file) == IF status = "ok" THEN file ELSE 0

\* Array.prototype.filter(Boolean) over a sequence of tools and nulls (0).
RECURSIVE FilterBoolean(_)
FilterBoolean(s) ==
    IF s = << >> THEN << >>
    ELSE IF Head(s) # 0 THEN <<Head(s)>> \o FilterBoolean(Tail(s))
         ELSE FilterBoolean(Tail(s))

\* Promise.all over imports that are not caught one by one: one failing
\* source empties the pass.
PassResultAborting(loads) ==
    IF \E i \in Sources : loads[i] = 0 THEN << >>
    ELSE FilterBoolean([i \in Sources |-> loads[i]])

\* lib/tools.js:42, Promise.all keeps the order of toolPaths whatever the
\* order in which the imports settle.
PassResult(loads) == FilterBoolean([i \in Sources |-> loads[i]])

\* The array a discovery pass allocates.
NewArray(pass, items) == [tag |-> "arr", id |-> pass, items |-> items]

\* A pass that writes its array and leaves the timestamp unset.
CacheUpdateUnstamped(tools, now) ==
    [toolsCache |-> tools, mcpToolsCache |-> Null, cacheTimestamp |-> 0]

\* lib/tools.js:44-47, what a finished pass writes: toolsCache,
\* mcpToolsCache and cacheTimestamp, in one synchronous stretch.
CacheUpdate(tools, now) == [toolsCache |-> tools, mcpToolsCache |-> Null, cacheTimestamp |-> now]

\* lib/tools.js:63-73, the projection of one tool.
McpShape(i) == [name |-> ToolName(i), inputSchema |-> [required |-> Required(i)]]

McpProjection(items) == [k \in 1 .. Len(items) |-> McpShape(items[k])]

\* lib/tools.js:57-78: <<returned list, new mcpToolsCache>>.
transformToolsToMcp(tools, cache, mcpCache) ==
    IF mcpCache # Null /\ cache = tools
    THEN <<mcpCache, mcpCache>>
    ELSE LET mcpTools == [tag |-> "mcp", items |-> McpProjection(tools.items)]
         IN <<mcpTools, mcpTools>>


\* lib/tools.js:89, tools.find: the first tool whose definition.name is
\* toolName, or 0 (undefined).
RECURSIVE FindTool(_, _)
FindTool(items, toolName) ==
    IF items = << >> THEN 0
    ELSE IF ToolName(Head(items)) = toolName THEN Head(items)
         ELSE FindTool(Tail(items), toolName)

\* The arguments object of a call: absent, or an object with a set of keys.
NoArgs == [absent |-> TRUE]
ObjArgs(keys) == [keys |-> keys]

\* lib/tools.js:96-101 and mcpServer.js:52-58, the loop over the required
\* parameters: the first one that is not a key of args, or Undefined.
RECURSIVE FirstMissing(_, _)
FirstMissing(required, args) ==
    IF required = << >> THEN Undefined
    ELSE IF Head(required) \notin args.keys THEN Head(required)
         ELSE FirstMissing(Tail(required), args)

(* ------------------------------- codec -------------------------------- *)
\* lib/jsonrpc.js:10-16
createJsonRpcResponse(id, result) == [jsonrpc |-> "2.0", id |-> id, result |-> result]

\* An argument the caller did not pass (or passed as undefined).
NoData == [absent |-> TRUE]

\* A createJsonRpcError that writes the data member whatever it is.
createJsonRpcErrorAlwaysData(id, code, message, data) ==
    [jsonrpc |-> "2.0",
     id |-> id,
     error |-> [code |-> code, message |-> message,
                data |-> IF data = NoData THEN Null ELSE data]]

\* lib/jsonrpc.js:26-36; the parameter data defaults to null, and a null
\* data is left out of the error object.
createJsonRpcError(id, code, message, data) ==
    LET given == IF data = NoData THEN Null ELSE data
    IN  [jsonrpc |-> "2.0",
         id |-> id,
         error |-> IF given # Null
                   THEN [code |-> code, message |-> message, data |-> given]
                   ELSE [code |-> code, message |-> message]]

\* lib/jsonrpc.js:43-54: the message of the error parseJsonRpcRequest
\* throws on this body, or Undefined when it returns the parsed body.
parseJsonRpcRequest(q) ==
    IF q.body = "badjson" THEN "Unexpected token"
    ELSE IF q.body = "array" \/ q.jsonrpc # "2.0" THEN "Invalid JSON-RPC version"
    ELSE Undefined

\* A catch block that drops the caught error's message.
CaughtEnvelopeBare(error) ==
    createJsonRpcError(JsonNull, INTERNAL_ERROR, "Internal error", NoData)

\* api/mcp/index.js:110-115 and api/mcp/tools.js:102-107, the envelope both
\* catch blocks build from a caught error.
CaughtEnvelope(error) ==
    createJsonRpcError(JsonNull, INTERNAL_ERROR, "Internal error", [message |-> error.message])

\* The own keys of the two methodHandlers object literals.
MainMethods == {"initialize", "tools/list", "tools/call"}
ToolsMethods == {"tools/list", "tools/call"}

\* Names every object literal inherits from Object.prototype; the two kept
\* here stand for a member that returns a value when called without a
\* receiver (toString) and one that throws a TypeError (valueOf).
InheritedMethods == {"toString", "valueOf"}

\* api/mcp/index.js:80 and api/mcp/tools.js:79, methodHandlers[method]: a
\* property read, which also finds inherited members.
LookupHandler(table, method) ==
    IF method \in table THEN method
    ELSE IF method \in InheritedMethods THEN "inherited"
    ELSE Undefined

\* lib/auth.js:9-28
NoHeader == [absent |-> TRUE]
authenticateRequest(header, expectedToken) ==
    /\ expectedToken # Undefined
    /\ header # NoHeader
    /\ header.scheme = "Bearer"
    /\ header.token = expectedToken


(* ------------------------------ requests ------------------------------ *)
GoodHeader == [scheme |-> "Bearer", token |-> "secret"]
Headers ==
    {NoHeader, [scheme |-> "Basic", token |-> "secret"],
     [scheme |-> "Bearer", token |-> "wrong"], GoodHeader}

Ids == {Undefined, "7"}
CallNames == {Undefined, ToolName(1), ToolName(2), "nope"}
CallArgs == {NoArgs, ObjArgs({}), ObjArgs({"action"})}

\* The Mcp-Session-Id header of a request: absent, an id the session store
\* generated (1 .. MaxSessions), or a string the client made up.
NoSessionId == 0
SessionIds == 1 .. MaxSessions
GuessedId == MaxSessions + 1

\* One request: the endpoint it reaches (ep), the HTTP verb and
\* Authorization header, and the JSON-RPC body; force is the argument of a
\* direct discoverTools(forceRefresh) call. batch holds the elements of a
\* body that is a JSON array; an array has no jsonrpc, id or method member
\* of its own.
Request(ep, verb, header, body, jsonrpc, id, method, name, args, force) ==
    [ep |-> ep, verb |-> verb, header |-> header, body |-> body, jsonrpc |-> jsonrpc,
     id |-> id, method |-> method, name |-> name, args |-> args, force |-> force,
     batch |-> << >>, session |-> NoSessionId]

\* The elements a posted array is made of, and the arrays posted.
BatchElements ==
    {[id |-> "7", method |-> "initialize"], [id |-> "8", method |-> "ping"],
     [id |-> Undefined, method |-> "notifications/initialized"]}
Batches == UNION {[1 .. n -> BatchElements] : n \in 1 .. MaxBatch}

Post(ep, jsonrpc, id, method, name, args) ==
    Request(ep, "POST", GoodHeader, "object", jsonrpc, id, method, name, args, FALSE)

NoRequest ==
    Request("none", "-", NoHeader, "-", Undefined, Undefined, Undefined, Undefined, NoArgs, FALSE)

\* Callers of discoverTools: tools/list on the main endpoint, and the
\* exported function called directly, with and without forceRefresh.
RegistryRequests ==
    {Post("main", "2.0", "7", "tools/list", Undefined, NoArgs)}
    \cup {Request("direct", "-", NoHeader, "-", Undefined, Undefined, Undefined, Undefined, NoArgs, f) :
            f \in BOOLEAN}

HttpRequests(ep) ==
    {Request(ep, v, h, "-", Undefined, Undefined, Undefined, Undefined, NoArgs, FALSE) :
        v \in {"OPTIONS", "GET", "DELETE"}, h \in {NoHeader, GoodHeader}}
    \cup {Request(ep, "POST", h, "object", "2.0", "7", "tools/list", Undefined, NoArgs, FALSE) :
            h \in Headers \ {GoodHeader}}
    \cup {Request(ep, "POST", GoodHeader, "badjson", Undefined, Undefined, Undefined, Undefined,
                   NoArgs, FALSE)}
    \cup {[Request(ep, "POST", GoodHeader, "array", Undefined, Undefined, Undefined, Undefined,
                    NoArgs, FALSE) EXCEPT !.batch = b] : b \in Batches}
    \cup {Post(ep, v, id, "tools/list", Undefined, NoArgs) : v \in {"1.0", Undefined}, id \in Ids}
    \cup {Post(ep, "2.0", id, m, Undefined, NoArgs) :
            id \in Ids,
            m \in {Undefined, "initialize", "tools/list", "ping", "foo/bar", "toString", "valueOf"}}
    \cup {Post(ep, "2.0", id, "tools/call", n, a) : id \in Ids, n \in CallNames, a \in CallArgs}

\* What the SDK hands to the STDIO handlers: tools/list, and tools/call with
\* a name and optional arguments.
StdioRequests ==
    {Request("stdio", "-", NoHeader, "object", "2.0", "7", "tools/list", Undefined, NoArgs, FALSE)}
    \cup {Request("stdio", "-", NoHeader, "object", "2.0", "7", "tools/call", n, a, FALSE) :
            n \in CallNames \ {Undefined}, a \in CallArgs}

ReadyRequest ==
    Request("ready", "GET", NoHeader, "-", Undefined, Undefined, Undefined, Undefined, NoArgs, FALSE)

\* Requests to /api/mcp/capabilities and /api/mcp/metrics.
GetEndpointRequests ==
    {Request(ep, v, h, "-", Undefined, Undefined, Undefined, Undefined, NoArgs, FALSE) :
        ep \in {"capabilities", "metrics"}, v \in {"OPTIONS", "GET", "POST"},
        h \in {NoHeader, GoodHeader}}

DispatchRequests ==
    HttpRequests("main") \cup HttpRequests("tools") \cup GetEndpointRequests
    \cup StdioRequests \cup {ReadyRequest}

\* What a tool's function does once it is called: it returns, or it throws
\* an Error, with or without a code field.
ToolReturns == [returns |-> TRUE]
ToolErrors == {[message |-> "HTTP 500: boom"], [message |-> "boom", code |-> 404]}

(* -------------------------------- state -------------------------------- *)
VARIABLES
    clock,          \* Date.now()
    ticks,          \* how often the clock has advanced
    toolsCache,     \* lib/tools.js:4
    cacheTimestamp, \* lib/tools.js:5
    mcpToolsCache,  \* lib/tools.js:9
    discoveryCalls, \* discovery passes started so far; names the pass and its array
    sourceStatus,   \* what importing each tool source yields at present
    envChanges,     \* how often a tool source has changed
    stdioTools,     \* mcpServer.js:84, the tools the STDIO process discovered at startup
    expectedToken,  \* process.env.MCP_AUTH_TOKEN
    sessions,       \* the session store of the Streamable HTTP handler, by session id
    nextSessionId,  \* the ids the session store has generated so far, plus one
    stdioPc,        \* mcpServer.js:80-111, where run() of the STDIO process stands
    stdout,         \* what the STDIO process has written to standard output
    req             \* the requests in flight, by slot

vars ==
    <<clock, ticks, toolsCache, cacheTimestamp, mcpToolsCache, discoveryCalls, sourceStatus,
      envChanges, stdioTools, expectedToken, sessions, nextSessionId, stdioPc, stdout, req>>

registry == <<toolsCache, cacheTimestamp, mcpToolsCache>>
store == <<sessions, nextSessionId>>
env == <<clock, ticks, sourceStatus, envChanges, stdioTools, expectedToken, stdioPc>>

\* What reaches standard output: a line of text written with console.log,
\* or a JSON-RPC message written by the SDK's transport.
LogLine(text) == [kind |-> "log", text |-> text]
JsonRpcFrame == [kind |-> "jsonrpc", text |-> "-"]

\* mcpServer.js:81-82, 110 and 103, the console.log calls of run().
StartBanner ==
    {LogLine("[medusa-admin-mcp-server] Starting MCP server (STDIO mode only)"),
     LogLine("[Info] For HTTP transport, use the Vercel API endpoints at /api/mcp/")}
ConnectedBanner == {LogLine("[medusa-admin-mcp-server] Connected via STDIO transport")}
ShutdownBanner == {LogLine("[Info] Shutting down server...")}

\* The session store before any session exists.
NoSessions == [id \in {} |-> Null]

Pending == -1
NoLoads == [i \in Sources |-> Pending]

\* A slot: pc is where the request stands (idle, discovering, handler, tool,
\* done); now, pass and loads are the locals of its discoverTools call;
\* tools is what that call returned; started and invoked record whether the
\* request started a discovery pass and called a tool's function; err is
\* the error the tool's function threw.
IdleSlot ==
    [pc |-> "idle", q |-> NoRequest, now |-> 0, pass |-> 0, loads |-> NoLoads, tools |-> Null,
     resp |-> Null, started |-> FALSE, invoked |-> FALSE, err |-> Null]

Init ==
    /\ clock = CACHE_TTL
    /\ ticks = 0
    /\ toolsCache = Null
    /\ cacheTimestamp = 0
    /\ mcpToolsCache = Null
    /\ discoveryCalls = 0
    /\ sourceStatus = [i \in Sources |-> "ok"]
    /\ envChanges = 0
    /\ stdioTools = NewArray(0, PassResult([i \in Sources |-> LoadTool(sourceStatus[i], i)]))
    /\ expectedToken = "secret"
    /\ sessions = NoSessions
    /\ nextSessionId = 1
    /\ stdioPc = "connected"
    /\ stdout = StartBanner \cup ConnectedBanner
    /\ req = [r \in Slots |-> IdleSlot]


(* ----------------------------- dispatchers ---------------------------- *)
Http(status, body) == [status |-> status, body |-> body]

\* The answer to a CORS preflight: 204, no body, and the
\* Access-Control-Allow-Methods header (lib/auth.js:33-38 and 44-49,
\* server/middleware/auth.js:76-85).
Preflight(allowMethods) == [status |-> HTTP_NO_CONTENT, body |-> Null, cors |-> allowMethods]

\* What the synchronous start of a request comes to: a response, or a call
\* of discoverTools(force), or (STDIO) the handler over the startup tools.
Final(resp) == [kind |-> "final", resp |-> resp]
Discover(force) == [kind |-> "discover", force |-> force]

\* api/mcp/index.js:15-20 and 22-26
HEALTH_CHECK_RESPONSE == [server |-> "medusa-admin-mcp-server", transport |-> "http"]
INITIALIZE_RESPONSE == [protocolVersion |-> "2024-11-05", serverInfo |-> "medusa-admin-mcp-server"]

\* Calling a member inherited from Object.prototype as handler(id, params,
\* tools), without a receiver.
InheritedCall(method) ==
    IF method = "toString" THEN [returns |-> "[object Undefined]"]
    ELSE [throws |-> "Cannot convert undefined or null to object"]

\* api/mcp/index.js:72-94 up to the first await on shared state: parse,
\* handler lookup, and the methods that need no tools.
handleMcpRequest(q) ==
    LET parseError == parseJsonRpcRequest(q)
        handler == LookupHandler(MainMethods, q.method)
    IN  IF parseError # Undefined
        THEN Final(Http(HTTP_OK, CaughtEnvelope([message |-> parseError])))
        ELSE IF handler = Undefined
        THEN Final(Http(HTTP_OK,
                 createJsonRpcError(q.id, METHOD_NOT_FOUND, "Method not found: " \o q.method, NoData)))
        ELSE IF q.method = "tools/list" \/ q.method = "tools/call"
        THEN Discover(FALSE)
        ELSE IF handler = "initialize"
        THEN Final(Http(HTTP_OK, createJsonRpcResponse(q.id, INITIALIZE_RESPONSE)))
        ELSE LET called == InheritedCall(q.method)
             IN  IF "throws" \in DOMAIN called
                 THEN Final(Http(HTTP_OK, CaughtEnvelope([message |-> called.throws])))
                 ELSE Final(Http(HTTP_OK, [raw |-> called.returns]))

\* api/mcp/index.js:120-177, the main handler.
mainHandler(q, token) ==
    IF q.verb = "OPTIONS" THEN Final(Preflight("GET, POST, OPTIONS"))
    ELSE IF ~authenticateRequest(q.header, token)
    THEN Final(Http(HTTP_UNAUTHORIZED,
             createJsonRpcError(JsonNull, INVALID_REQUEST, "Unauthorized", NoData)))
    ELSE IF q.verb = "GET" THEN Final(Http(HTTP_OK, HEALTH_CHECK_RESPONSE))
    ELSE IF q.verb = "POST" THEN handleMcpRequest(q)
    ELSE Final(Http(HTTP_METHOD_NOT_ALLOWED,
             createJsonRpcError(JsonNull, INVALID_REQUEST, "Method not allowed", NoData)))

\* api/mcp/tools.js:48-88, toolsHandler up to its discoverTools call.
toolsHandler(q, token) ==
    LET parseError == parseJsonRpcRequest(q)
        handler == LookupHandler(ToolsMethods, q.method)
    IN  IF q.verb = "OPTIONS" THEN Final(Preflight("GET, POST, OPTIONS"))
        ELSE IF q.verb # "POST"
        THEN Final(Http(HTTP_METHOD_NOT_ALLOWED,
                 createJsonRpcError(JsonNull, INVALID_REQUEST, "Method not allowed", NoData)))
        ELSE IF ~authenticateRequest(q.header, token)
        THEN Final(Http(HTTP_UNAUTHORIZED,
                 createJsonRpcError(JsonNull, INVALID_REQUEST, "Unauthorized", NoData)))
        ELSE IF parseError # Undefined
        THEN Final(Http(HTTP_INTERNAL_SERVER_ERROR, CaughtEnvelope([message |-> parseError])))
        ELSE IF q.method = Undefined
        THEN Final(Http(HTTP_BAD_REQUEST,
                 createJsonRpcError(q.id, INVALID_REQUEST, "Missing method", NoData)))
        ELSE IF handler = Undefined
        THEN Final(Http(HTTP_BAD_REQUEST,
                 createJsonRpcError(q.id, METHOD_NOT_FOUND, "Method not found: " \o q.method, NoData)))
        ELSE Discover(FALSE)

\* The synchronous start of a request on each endpoint; /ready
\* (server/index.js:75-78) and a direct caller go straight to discoverTools.
\* api/mcp/capabilities.js:25-46 and api/mcp/metrics.js:13-30, the two GET
\* endpoints: preflight, then the verb, then authentication, then the
\* answer (the capabilities, or figures from globalMetrics).
getHandler(q, token, answer) ==
    IF q.verb = "OPTIONS" THEN Final(Preflight("GET, POST, OPTIONS"))
    ELSE IF q.verb # "GET"
    THEN Final(Http(HTTP_METHOD_NOT_ALLOWED, [error |-> "Method not allowed"]))
    ELSE IF ~authenticateRequest(q.header, token)
    THEN Final(Http(HTTP_UNAUTHORIZED, [error |-> "Unauthorized"]))
    ELSE Final(Http(HTTP_OK, answer))

capabilitiesHandler(q, token) == getHandler(q, token, [transport |-> "http"])
metricsHandler(q, token) == getHandler(q, token, [health |-> "healthy"])

Entry(q, token) ==
    CASE q.ep = "main" -> mainHandler(q, token)
      [] q.ep = "tools" -> toolsHandler(q, token)
      [] q.ep = "capabilities" -> capabilitiesHandler(q, token)
      [] q.ep = "metrics" -> metricsHandler(q, token)
      [] q.ep = "ready" -> Discover(FALSE)
      [] q.ep = "direct" -> Discover(q.force)
      [] q.ep = "stdio" -> [kind |-> "stdio"]

\* api/mcp/index.js:48 and api/mcp/tools.js:24, arguments: args = {}.
DefaultArgs(args) == IF args = NoArgs THEN ObjArgs({}) ELSE args

\* lib/tools.js:87-102, executeToolOptimized up to the call of the tool's
\* function: the message of the Error it throws, or the tool it will call.
executeToolOptimized(tools, toolName, args) ==
    LET tool == FindTool(tools.items, toolName)
        missing == IF Len(Required(tool)) > 0 THEN FirstMissing(Required(tool), args) ELSE Undefined
    IN  IF tool = 0 THEN [throws |-> "Tool not found: " \o toolName]
        ELSE IF missing # Undefined THEN [throws |-> "Missing required parameter: " \o missing]
        ELSE [tool |-> tool]

\* What the serverless catch blocks answer with: the main endpoint sends
\* every envelope with 200 (index.js:162), the tools endpoint sends the
\* caught error with 500 (tools.js:101).
CaughtResponse(ep, error) ==
    Http(IF ep = "main" THEN HTTP_OK ELSE HTTP_INTERNAL_SERVER_ERROR, CaughtEnvelope(error))

McpError(code, message) == [name |-> "McpError", code |-> code, message |-> message]

\* mcpServer.js:43-59, the CallTool handler up to the call of the tool's
\* function: the error it throws, or the tool it will call. The in operator
\* throws a TypeError when args is undefined.
stdioCallTool(tools, toolName, args) ==
    LET tool == FindTool(tools.items, toolName)
    IN  IF tool = 0
        THEN [throws |-> McpError(METHOD_NOT_FOUND, "Unknown tool: " \o toolName)]
        ELSE IF Required(tool) = << >> THEN [tool |-> tool]
        ELSE IF args = NoArgs
        THEN [throws |-> [name |-> "TypeError",
                          message |-> "Cannot use 'in' operator to search for '"
                                      \o Head(Required(tool)) \o "' in undefined"]]
        ELSE IF FirstMissing(Required(tool), args) # Undefined
        THEN [throws |-> McpError(INVALID_PARAMS,
                 "Missing required parameter: " \o FirstMissing(Required(tool), args))]
        ELSE [tool |-> tool]

\* The handler stretch that runs once discoverTools has returned tools:
\* [resp, mcp] when it answers (mcp is the new mcpToolsCache), [tool] when
\* it goes on to call a tool's function.
\* api/mcp/index.js:40-56 and 94, api/mcp/tools.js:16-32 and 91-92,
\* mcpServer.js:39-59, server/index.js:79-83.
Answer(resp, mcp) == [resp |-> resp, mcp |-> mcp]

listTools(q, tools, cache, mcpCache) ==
    LET t == transformToolsToMcp(tools, cache, mcpCache)
    IN  Answer(Http(HTTP_OK, createJsonRpcResponse(q.id, [tools |-> t[1]])), t[2])

callTool(q, tools, mcpCache) ==
    LET exec == executeToolOptimized(tools, q.name, DefaultArgs(q.args))
    IN  IF q.name = Undefined
        THEN Answer(Http(HTTP_OK, createJsonRpcError(q.id, INVALID_PARAMS, "Missing tool name", NoData)),
                    mcpCache)
        ELSE IF "throws" \in DOMAIN exec
        THEN Answer(CaughtResponse(q.ep, [message |-> exec.throws]), mcpCache)
        ELSE exec

HandlerStep(q, tools, cache, mcpCache) ==
    CASE q.ep = "ready" ->
            Answer(Http(HTTP_OK, [status |-> "ready", toolsCount |-> Len(tools.items)]), mcpCache)
      [] q.ep = "direct" -> Answer([returned |-> tools], mcpCache)
      [] q.ep = "stdio" /\ q.method = "tools/list" ->
            Answer([result |-> [tools |-> McpProjection(tools.items)]], mcpCache)
      [] q.ep = "stdio" /\ q.method = "tools/call" ->
            LET call == stdioCallTool(tools, q.name, q.args)
            IN  IF "throws" \in DOMAIN call THEN Answer([thrown |-> call.throws], mcpCache)
                ELSE call
      [] q.ep \in {"main", "tools"} /\ q.method = "tools/list" -> listTools(q, tools, cache, mcpCache)
      [] q.ep \in {"main", "tools"} /\ q.method = "tools/call" -> callTool(q, tools, mcpCache)
      [] OTHER ->
            \* tools.js:91, an inherited member called as the handler
            LET called == InheritedCall(q.method)
            IN  IF "throws" \in DOMAIN called
                THEN Answer(CaughtResponse(q.ep, [message |-> called.throws]), mcpCache)
                ELSE Answer(Http(HTTP_OK, [raw |-> called.returns]), mcpCache)

\* lib/tools.js:109-114, the content envelope around what the tool returned.
ContentEnvelope == [content |-> <<[type |-> "text", text |-> "{}"]>>]

\* What the request is answered with once the tool's function has settled.
\* lib/tools.js:106-118 with api/mcp/index.js:63-66 and 103-115,
\* api/mcp/tools.js:40-43 and 94-107, mcpServer.js:60-76.
ToolSettled(q, outcome) ==
    IF q.ep = "stdio"
    THEN IF outcome = ToolReturns THEN [result |-> ContentEnvelope]
         ELSE [thrown |-> McpError(INTERNAL_ERROR, "API error: " \o outcome.message)]
    ELSE IF outcome = ToolReturns
         THEN Http(HTTP_OK, createJsonRpcResponse(q.id, ContentEnvelope))
         ELSE CaughtResponse(q.ep, outcome)


(* ------------------------------- actions ------------------------------ *)
Free(r) == req[r].pc \in {"idle", "done"}

DoneSlot(slot, resp) == [slot EXCEPT !.pc = "done", !.resp = resp]

\* A request that is answered in its first synchronous stretch.
Reply(r, q) ==
    /\ Free(r)
    /\ Entry(q, expectedToken).kind = "final"
    /\ req' = [req EXCEPT ![r] = DoneSlot([IdleSlot EXCEPT !.q = q], Entry(q, expectedToken).resp)]
    /\ UNCHANGED <<registry, discoveryCalls, env, store, stdout>>

\* lib/tools.js:17-22, discoverTools returning the cache.
CacheHit(r, q) ==
    /\ Free(r)
    /\ Entry(q, expectedToken).kind = "discover"
    /\ CacheValid(Entry(q, expectedToken).force, toolsCache, cacheTimestamp, clock)
    /\ req' = [req EXCEPT ![r] =
                  [IdleSlot EXCEPT !.q = q, !.pc = "handler", !.tools = toolsCache]]
    /\ UNCHANGED <<registry, discoveryCalls, env, store, stdout>>

\* lib/tools.js:17-40, discoverTools starting a discovery pass: one import
\* per tool source.
StartPass(r, q) ==
    /\ Free(r)
    /\ discoveryCalls < MaxPasses
    /\ Entry(q, expectedToken).kind = "discover"
    /\ ~CacheValid(Entry(q, expectedToken).force, toolsCache, cacheTimestamp, clock)
    /\ discoveryCalls' = discoveryCalls + 1
    /\ req' = [req EXCEPT ![r] =
                  [IdleSlot EXCEPT !.q = q, !.pc = "discovering", !.now = clock,
                                   !.pass = discoveryCalls + 1, !.started = TRUE]]
    /\ UNCHANGED <<registry, env, store, stdout>>

\* lib/tools.js:26-39, one import settles.
LoadSettle(r, file) ==
    /\ req[r].pc = "discovering"
    /\ req[r].loads[file] = Pending
    /\ req' = [req EXCEPT ![r].loads[file] = LoadTool(sourceStatus[file], file)]
    /\ UNCHANGED <<registry, discoveryCalls, env, store, stdout>>

\* lib/tools.js:42-49, every import has settled: the pass writes the cache
\* and returns its array.
Commit(r) ==
    /\ req[r].pc = "discovering"
    /\ \A i \in Sources : req[r].loads[i] # Pending
    /\ LET tools == NewArray(req[r].pass, PassResult(req[r].loads))
           update == CacheUpdate(tools, req[r].now)
       IN  /\ toolsCache' = update.toolsCache
           /\ mcpToolsCache' = update.mcpToolsCache
           /\ cacheTimestamp' = update.cacheTimestamp
           /\ req' = [req EXCEPT ![r].pc = "handler", ![r].tools = tools, ![r].loads = NoLoads,
                                  ![r].now = 0]
    /\ UNCHANGED <<discoveryCalls, env, store, stdout>>

\* The SDK's transport writes the answer to a STDIO request, result or
\* error, to standard output as one JSON-RPC message.
Written(q, out) == IF q.ep = "stdio" THEN out \cup {JsonRpcFrame} ELSE out

\* mcpServer.js:80-84, run() starts: two console.log lines, then the call of
\* discoverTools.
StdioStart ==
    /\ stdioPc = "start"
    /\ stdioPc' = "discovering"
    /\ stdout' = stdout \cup StartBanner
    /\ UNCHANGED <<registry, discoveryCalls, clock, ticks, sourceStatus, envChanges, stdioTools,
                   expectedToken, store, req>>

\* mcpServer.js:84-110, discoverTools has returned: the handlers are set up
\* over its tools, the transport is connected and a line is logged.
StdioConnect ==
    /\ stdioPc = "discovering"
    /\ stdioPc' = "connected"
    /\ stdioTools' = NewArray(0, PassResult([i \in Sources |-> LoadTool(sourceStatus[i], i)]))
    /\ stdout' = stdout \cup ConnectedBanner
    /\ UNCHANGED <<registry, discoveryCalls, clock, ticks, sourceStatus, envChanges,
                   expectedToken, store, req>>

\* mcpServer.js:102-106, SIGINT: a line is logged, the server is closed and
\* the process exits; requests in flight are dropped.
StdioInterrupt ==
    /\ stdioPc = "connected"
    /\ stdioPc' = "closed"
    /\ stdout' = stdout \cup ShutdownBanner
    /\ req' = [r \in Slots |->
                IF req[r].q.ep = "stdio" /\ ~Free(r) THEN IdleSlot ELSE req[r]]
    /\ UNCHANGED <<registry, discoveryCalls, clock, ticks, sourceStatus, envChanges, stdioTools,
                   expectedToken, store>>

\* mcpServer.js:39-59, a request to the STDIO process, whose handlers close
\* over the tools discovered at startup.
StdioRequest(r, q) ==
    /\ Free(r)
    /\ stdioPc = "connected"
    /\ Entry(q, expectedToken).kind = "stdio"
    /\ req' = [req EXCEPT ![r] = [IdleSlot EXCEPT !.q = q, !.pc = "handler", !.tools = stdioTools]]
    /\ UNCHANGED <<registry, discoveryCalls, env, store, stdout>>

\* The handler answers without calling a tool's function.
Respond(r) ==
    /\ req[r].pc = "handler"
    /\ LET step == HandlerStep(req[r].q, req[r].tools, toolsCache, mcpToolsCache)
       IN  /\ "resp" \in DOMAIN step
           /\ mcpToolsCache' = step.mcp
           /\ req' = [req EXCEPT ![r] = DoneSlot(req[r], step.resp)]
    /\ stdout' = Written(req[r].q, stdout)
    /\ UNCHANGED <<toolsCache, cacheTimestamp, discoveryCalls, env, store>>

\* lib/tools.js:106 and mcpServer.js:61, the tool's function is called.
Invoke(r) ==
    /\ req[r].pc = "handler"
    /\ "tool" \in DOMAIN HandlerStep(req[r].q, req[r].tools, toolsCache, mcpToolsCache)
    /\ req' = [req EXCEPT ![r].pc = "tool", ![r].invoked = TRUE]
    /\ UNCHANGED <<registry, discoveryCalls, env, store, stdout>>

\* The tool's function returns or throws.
ToolSettle(r, outcome) ==
    /\ req[r].pc = "tool"
    /\ req' = [req EXCEPT ![r] =
                  DoneSlot([req[r] EXCEPT !.err = IF outcome = ToolReturns THEN Null ELSE outcome],
                           ToolSettled(req[r].q, outcome))]
    /\ stdout' = Written(req[r].q, stdout)
    /\ UNCHANGED <<registry, discoveryCalls, env, store>>

\* Time passes.
Tick(d) ==
    /\ ticks < MaxTicks
    /\ ticks' = ticks + 1
    /\ clock' = clock + d
    /\ UNCHANGED <<registry, discoveryCalls, sourceStatus, envChanges, stdioTools, expectedToken,
                   store, stdioPc, stdout, req>>

\* A tool source on disk changes what importing it yields.
EnvChange(file, status) ==
    /\ envChanges < MaxEnvChanges
    /\ sourceStatus[file] # status
    /\ envChanges' = envChanges + 1
    /\ sourceStatus' = [sourceStatus EXCEPT ![file] = status]
    /\ UNCHANGED <<registry, discoveryCalls, clock, ticks, stdioTools, expectedToken,
                   store, stdioPc, stdout, req>>

TickSteps == {1, CACHE_TTL - 1}

\* Concurrent callers of discoverTools.
Next ==
    \/ \E r \in Slots, q \in RegistryRequests : CacheHit(r, q) \/ StartPass(r, q)
    \/ \E r \in Slots, file \in Sources : LoadSettle(r, file)
    \/ \E r \in Slots : Commit(r) \/ Respond(r)
    \/ \E d \in TickSteps : Tick(d)
    \/ \E file \in Sources, status \in LoadStatus : EnvChange(file, status)

Spec == Init /\ [][Next]_vars

\* One request at a time, of every shape, on every endpoint.
DispatchNext ==
    \/ \E q \in DispatchRequests : Reply(1, q) \/ CacheHit(1, q) \/ StartPass(1, q) \/ StdioRequest(1, q)
    \/ \E file \in Sources : LoadSettle(1, file)
    \/ Commit(1) \/ Respond(1) \/ Invoke(1)
    \/ \E outcome \in {ToolReturns} \cup ToolErrors : ToolSettle(1, outcome)

\* The dispatch claims are settled over every combination of loadable and
\* broken tool sources, with and without a configured token.
DispatchInit ==
    /\ clock = CACHE_TTL
    /\ ticks = 0
    /\ toolsCache = Null
    /\ cacheTimestamp = 0
    /\ mcpToolsCache = Null
    /\ discoveryCalls = 0
    /\ sourceStatus \in [Sources -> LoadStatus]
    /\ envChanges = 0
    /\ stdioTools = NewArray(0, PassResult([i \in Sources |-> LoadTool(sourceStatus[i], i)]))
    /\ expectedToken \in {Undefined, "secret"}
    /\ sessions = NoSessions
    /\ nextSessionId = 1
    /\ stdioPc = "connected"
    /\ stdout = StartBanner \cup ConnectedBanner
    /\ req = [r \in Slots |-> IdleSlot]

DispatchSpec == DispatchInit /\ [][DispatchNext]_vars


(* ------------------- Express server and session store ---------------- *)
\* server/index.js:99
HTTP_NOT_FOUND == 404

\* String.prototype.toLowerCase on the schemes a client may send.
ToLowerCase(str) ==
    CASE str = "Bearer" -> "bearer"
      [] str = "BEARER" -> "bearer"
      [] str = "Basic" -> "basic"
      [] OTHER -> str

\* Clients of the Express server also send the scheme in lower case and a
\* Bearer header without a token.
ExpressHeaders ==
    Headers \cup {[scheme |-> "bearer", token |-> "secret"], [scheme |-> "Bearer", token |-> ""]}

ExpressError(status, error, message) ==
    Http(status, [error |-> error, message |-> message])

\* An authMiddleware that lets a request without Authorization header pass.
authMiddlewareNoHeaderCheck(q, token) ==
    IF q.ep = "health" \/ q.ep = "ready" \/ q.verb = "OPTIONS" THEN [next |-> TRUE]
    ELSE IF q.header = NoHeader THEN [next |-> TRUE]
    ELSE IF ToLowerCase(q.header.scheme) # "bearer" \/ q.header.token = ""
    THEN ExpressError(HTTP_UNAUTHORIZED, "Unauthorized",
                      "Invalid Authorization header format. Expected: Bearer <token>")
    ELSE IF token = Undefined
    THEN ExpressError(HTTP_INTERNAL_SERVER_ERROR, "Internal Server Error",
                      "Server authentication not configured")
    ELSE IF q.header.token # token
    THEN ExpressError(HTTP_UNAUTHORIZED, "Unauthorized", "Invalid token")
    ELSE [next |-> TRUE]

\* server/middleware/auth.js:14-64: the response the middleware sends, or
\* [next] when it calls next().
authMiddleware(q, token) ==
    IF q.ep = "health" \/ q.ep = "ready" \/ q.verb = "OPTIONS" THEN [next |-> TRUE]
    ELSE IF q.header = NoHeader
    THEN ExpressError(HTTP_UNAUTHORIZED, "Unauthorized", "Missing Authorization header")
    ELSE IF ToLowerCase(q.header.scheme) # "bearer" \/ q.header.token = ""
    THEN ExpressError(HTTP_UNAUTHORIZED, "Unauthorized",
                      "Invalid Authorization header format. Expected: Bearer <token>")
    ELSE IF token = Undefined
    THEN ExpressError(HTTP_INTERNAL_SERVER_ERROR, "Internal Server Error",
                      "Server authentication not configured")
    ELSE IF q.header.token # token
    THEN ExpressError(HTTP_UNAUTHORIZED, "Unauthorized", "Invalid token")
    ELSE [next |-> TRUE]

\* The session store (server/transports/streamable-http.js, described in
\* sections 3 and 4.3 of the specification).
\* The clientInfo an initialize request carries.
ClientInfo == [name |-> "client", version |-> "1"]

NewSession(now) ==
    [createdAt |-> now, lastActivity |-> now, initialized |-> FALSE, clientInfo |-> Null]

PutSession(st, id, session) ==
    [i \in DOMAIN st \cup {id} |-> IF i = id THEN session ELSE st[i]]

\* A getOrCreate that files the new session under the id the caller sent.
getOrCreateAdopting(st, nextId, id, now) ==
    IF id \in DOMAIN st
    THEN [id |-> id, isNew |-> FALSE, sessions |-> [st EXCEPT ![id].lastActivity = now],
          nextId |-> nextId]
    ELSE IF id # NoSessionId
    THEN [id |-> id, isNew |-> TRUE, sessions |-> PutSession(st, id, NewSession(now)),
          nextId |-> nextId]
    ELSE [id |-> nextId, isNew |-> TRUE, sessions |-> PutSession(st, nextId, NewSession(now)),
          nextId |-> nextId + 1]

\* getOrCreate(id?) -> {id, session, isNew}: a known id is bumped and
\* returned, anything else gets a session under a newly generated id.
getOrCreate(st, nextId, id, now) ==
    IF id \in DOMAIN st
    THEN [id |-> id, isNew |-> FALSE, sessions |-> [st EXCEPT ![id].lastActivity = now],
          nextId |-> nextId]
    ELSE [id |-> nextId, isNew |-> TRUE, sessions |-> PutSession(st, nextId, NewSession(now)),
          nextId |-> nextId + 1]

\* A terminate that reports the deletion and leaves the session in place.
terminateKeeping(st, id) == [deleted |-> id \in DOMAIN st, sessions |-> st]

\* terminate(id) -> bool
terminate(st, id) ==
    [deleted |-> id \in DOMAIN st, sessions |-> [i \in DOMAIN st \ {id} |-> st[i]]]

\* Section 4.4 of the specification, the method table of the Streamable
\* HTTP dispatcher for the methods that need no tools: the envelope, and
\* whether the method marks the session initialized.
streamDispatch(q) ==
    IF q.jsonrpc # "2.0"
    THEN [body |-> createJsonRpcError(IF q.id = Undefined THEN JsonNull ELSE q.id,
                                      INVALID_REQUEST, "Invalid Request", NoData),
          initialized |-> FALSE]
    ELSE CASE q.method = "initialize" ->
                [body |-> createJsonRpcResponse(q.id, INITIALIZE_RESPONSE), initialized |-> TRUE,
                 clientInfo |-> ClientInfo]
           [] q.method = "notifications/initialized" ->
                [body |-> createJsonRpcResponse(q.id, [acknowledged |-> TRUE]),
                 initialized |-> TRUE]
           [] q.method = "ping" ->
                [body |-> createJsonRpcResponse(q.id, [pong |-> TRUE]), initialized |-> FALSE]
           [] OTHER ->
                [body |-> createJsonRpcError(q.id, METHOD_NOT_FOUND,
                                             "Method not found: " \o q.method, NoData),
                 initialized |-> FALSE]

\* What a request comes to: the response, and the session store after it.
Handled(resp, st, nextId) == [kind |-> "final", resp |-> resp, sessions |-> st, nextId |-> nextId]

\* A handleRequest that sets the flag to what the last request asked for.
handleRequestResetting(q, st, nextId, now) ==
    CASE q.verb = "POST" ->
            LET got == getOrCreate(st, nextId, q.session, now)
                out == streamDispatch(q)
                after == [got.sessions EXCEPT
                             ![got.id].initialized = out.initialized,
                             ![got.id].clientInfo =
                                 IF "clientInfo" \in DOMAIN out THEN out.clientInfo ELSE @]
                sent == IF q.id = Undefined /\ q.jsonrpc = "2.0"
                        THEN Http(HTTP_NO_CONTENT, Null)
                        ELSE Http(HTTP_OK, out.body)
            IN  Handled([status |-> sent.status, body |-> sent.body, sessionId |-> got.id,
                         isNew |-> got.isNew],
                        after, got.nextId)
      [] q.verb = "GET" ->
            IF q.session \in DOMAIN st
            THEN Handled([status |-> HTTP_OK, body |-> [stream |-> TRUE], sessionId |-> q.session,
                          isNew |-> FALSE],
                         [st EXCEPT ![q.session].lastActivity = now], nextId)
            ELSE Handled(ExpressError(HTTP_BAD_REQUEST, "Bad Request", "Unknown session"),
                         st, nextId)
      [] q.verb = "DELETE" ->
            LET done == terminate(st, q.session)
            IN  Handled(IF done.deleted THEN Http(HTTP_NO_CONTENT, Null)
                        ELSE ExpressError(HTTP_NOT_FOUND, "Not Found", "Unknown session"),
                        done.sessions, nextId)
      [] OTHER ->
            Handled(ExpressError(HTTP_METHOD_NOT_ALLOWED, "Method Not Allowed", q.verb),
                    st, nextId)

\* Section 4.5 of the specification, handleRequest of the Streamable HTTP
\* handler: POST gets or creates the session, dispatches and stamps the
\* session id on the response (204 without body for a notification); GET
\* needs a known session; DELETE terminates one.
handleRequest(q, st, nextId, now) ==
    CASE q.verb = "POST" ->
            LET got == getOrCreate(st, nextId, q.session, now)
                out == streamDispatch(q)
                after == [got.sessions EXCEPT
                             ![got.id].initialized = @ \/ out.initialized,
                             ![got.id].clientInfo =
                                 IF "clientInfo" \in DOMAIN out THEN out.clientInfo ELSE @]
                sent == IF q.id = Undefined /\ q.jsonrpc = "2.0"
                        THEN Http(HTTP_NO_CONTENT, Null)
                        ELSE Http(HTTP_OK, out.body)
            IN  Handled([status |-> sent.status, body |-> sent.body, sessionId |-> got.id,
                         isNew |-> got.isNew],
                        after, got.nextId)
      [] q.verb = "GET" ->
            IF q.session \in DOMAIN st
            THEN Handled([status |-> HTTP_OK, body |-> [stream |-> TRUE], sessionId |-> q.session,
                          isNew |-> FALSE],
                         [st EXCEPT ![q.session].lastActivity = now], nextId)
            ELSE Handled(ExpressError(HTTP_BAD_REQUEST, "Bad Request", "Unknown session"),
                         st, nextId)
      [] q.verb = "DELETE" ->
            LET done == terminate(st, q.session)
            IN  Handled(IF done.deleted THEN Http(HTTP_NO_CONTENT, Null)
                        ELSE ExpressError(HTTP_NOT_FOUND, "Not Found", "Unknown session"),
                        done.sessions, nextId)
      [] OTHER ->
            Handled(ExpressError(HTTP_METHOD_NOT_ALLOWED, "Method Not Allowed", q.verb),
                    st, nextId)

\* An application that runs authMiddleware in front of every route.
expressAppAuthEverywhere(q, token, st, nextId, now) ==
    IF q.verb = "OPTIONS"
    THEN Handled(Preflight("GET, POST, DELETE, OPTIONS"), st, nextId)
    ELSE IF "next" \notin DOMAIN authMiddleware([q EXCEPT !.ep = "mcp"], token)
    THEN Handled(authMiddleware([q EXCEPT !.ep = "mcp"], token), st, nextId)
    ELSE IF q.ep = "health" /\ q.verb = "GET"
    THEN Handled(Http(HTTP_OK, [status |-> "ok", transport |-> "streamable-http"]), st, nextId)
    ELSE IF q.ep = "ready" /\ q.verb = "GET" THEN Discover(FALSE)
    ELSE IF q.ep = "mcp" THEN handleRequest(q, st, nextId, now)
    ELSE Handled(ExpressError(HTTP_NOT_FOUND, "Not Found", "Endpoint not found"), st, nextId)

\* An application whose corsMiddleware passes OPTIONS on to the routes.
expressAppNoPreflight(q, token, st, nextId, now) ==
    IF q.ep = "health" /\ q.verb = "GET"
    THEN Handled(Http(HTTP_OK, [status |-> "ok", transport |-> "streamable-http"]), st, nextId)
    ELSE IF q.ep = "ready" /\ q.verb = "GET" THEN Discover(FALSE)
    ELSE IF q.ep = "mcp"
    THEN IF "next" \in DOMAIN authMiddleware(q, token)
         THEN handleRequest(q, st, nextId, now)
         ELSE Handled(authMiddleware(q, token), st, nextId)
    ELSE Handled(ExpressError(HTTP_NOT_FOUND, "Not Found", "Endpoint not found"), st, nextId)

\* server/index.js:60-110, the middleware chain and the routes:
\* corsMiddleware answers OPTIONS (middleware/auth.js:72-88), /health and
\* /ready have no authentication, /mcp runs authMiddleware and then the
\* Streamable HTTP handler.
expressApp(q, token, st, nextId, now) ==
    IF q.verb = "OPTIONS"
    THEN Handled(Preflight("GET, POST, DELETE, OPTIONS"), st, nextId)
    ELSE IF q.ep = "health" /\ q.verb = "GET"
    THEN Handled(Http(HTTP_OK, [status |-> "ok", transport |-> "streamable-http"]), st, nextId)
    ELSE IF q.ep = "ready" /\ q.verb = "GET" THEN Discover(FALSE)
    ELSE IF q.ep = "mcp"
    THEN IF "next" \in DOMAIN authMiddleware(q, token)
         THEN handleRequest(q, st, nextId, now)
         ELSE Handled(authMiddleware(q, token), st, nextId)
    ELSE Handled(ExpressError(HTTP_NOT_FOUND, "Not Found", "Endpoint not found"), st, nextId)

\* The session ids a client can send: none, one it made up, or one the
\* server has handed out.
ClientKnows(id) == id = NoSessionId \/ id = GuessedId \/ (id >= 1 /\ id < nextSessionId)

\* A request to the Express server that is answered in one stretch, while
\* the store has generated no more than so many session ids.
ExpressReplyUpTo(r, q, minted) ==
    /\ Free(r)
    /\ ClientKnows(q.session)
    /\ LET out == expressApp(q, expectedToken, sessions, nextSessionId, clock)
       IN  /\ out.kind = "final"
           /\ out.nextId <= minted + 1
           /\ req' = [req EXCEPT ![r] = DoneSlot([IdleSlot EXCEPT !.q = q], out.resp)]
           /\ sessions' = out.sessions
           /\ nextSessionId' = out.nextId
    /\ UNCHANGED <<registry, discoveryCalls, env, stdout>>

ExpressReply(r, q) == ExpressReplyUpTo(r, q, MaxSessions)

\* server/index.js:75-78, GET /ready calls discoverTools.
ExpressDiscover(r, q) ==
    /\ expressApp(q, expectedToken, sessions, nextSessionId, clock).kind = "discover"
    /\ (CacheHit(r, q) \/ StartPass(r, q))

Express(path, verb, header, session, jsonrpc, id, method) ==
    [Request(path, verb, header, IF verb = "POST" THEN "object" ELSE "-", jsonrpc, id, method,
             Undefined, NoArgs, FALSE) EXCEPT !.session = session]

SuppliedIds == {NoSessionId, GuessedId} \cup SessionIds

ExpressRequests ==
    {Express("mcp", v, h, NoSessionId, "2.0", "7", "ping") :
        v \in {"OPTIONS", "POST"}, h \in ExpressHeaders}
    \cup {Express("mcp", "POST", GoodHeader, sid, "2.0", "7", "ping") : sid \in SuppliedIds}
    \cup {Express("mcp", "POST", GoodHeader, NoSessionId, "2.0", "7", m) :
            m \in {"initialize", "foo/bar"}}
    \cup {Express("mcp", "POST", GoodHeader, NoSessionId, "2.0", Undefined,
                  "notifications/initialized"),
          Express("mcp", "POST", GoodHeader, NoSessionId, "1.0", "7", "ping")}
    \cup {Express("mcp", v, GoodHeader, sid, Undefined, Undefined, Undefined) :
            v \in {"GET", "DELETE"}, sid \in {GuessedId, 1}}
    \cup {Express(path, "GET", h, NoSessionId, Undefined, Undefined, Undefined) :
            path \in {"health", "ready"},
            h \in {NoHeader, [scheme |-> "Bearer", token |-> "wrong"], GoodHeader}}
    \cup {Express("health", "OPTIONS", NoHeader, NoSessionId, Undefined, Undefined, Undefined)}

\* Requests to the serverless endpoints with every verb and header.
ServerlessProbes ==
    {Request(ep, v, h, IF v = "POST" THEN "object" ELSE "-", "2.0", "7", "initialize", Undefined,
             NoArgs, FALSE) :
        ep \in {"main", "tools"}, v \in {"OPTIONS", "GET", "POST"}, h \in Headers}

\* The HTTP servers, one request at a time, while time passes.
ServerNext ==
    \/ \E q \in ExpressRequests : ExpressReply(1, q) \/ ExpressDiscover(1, q)
    \/ \E q \in ServerlessProbes : Reply(1, q)
    \/ \E file \in Sources : LoadSettle(1, file)
    \/ Commit(1)
    \/ Respond(1)
    \/ \E d \in TickSteps : Tick(d)

ServerInit ==
    /\ clock = CACHE_TTL
    /\ ticks = 0
    /\ toolsCache = Null
    /\ cacheTimestamp = 0
    /\ mcpToolsCache = Null
    /\ discoveryCalls = 0
    /\ sourceStatus = [i \in Sources |-> "ok"]
    /\ envChanges = 0
    /\ stdioTools = NewArray(0, PassResult([i \in Sources |-> LoadTool(sourceStatus[i], i)]))
    /\ expectedToken \in {Undefined, "secret"}
    /\ sessions = NoSessions
    /\ nextSessionId = 1
    /\ stdioPc = "connected"
    /\ stdout = StartBanner \cup ConnectedBanner
    /\ req = [r \in Slots |-> IdleSlot]

ServerSpec == ServerInit /\ [][ServerNext]_vars

(* --------------------------- session lifetime ------------------------- *)
\* Section 3 of the specification: a session is evicted when
\* now - lastActivity > TTL (30 minutes).
SESSION_TTL == 30 * 60 * 1000

Expired(session, now) == now - session.lastActivity > SESSION_TTL

\* A sweep that also evicts the sessions whose age is exactly the TTL.
sweepInclusive(st, now) ==
    [id \in {i \in DOMAIN st : now - st[i].lastActivity < SESSION_TTL} |-> st[id]]

\* sweep(now): removes every session whose now - lastActivity > TTL, in a
\* single pass.
sweep(st, now) == [id \in {i \in DOMAIN st : ~Expired(st[i], now)} |-> st[id]]

\* The periodic sweep of the session store.
Sweep ==
    /\ sessions' = sweep(sessions, clock)
    /\ UNCHANGED <<registry, discoveryCalls, env, nextSessionId, stdout, req>>

\* Authenticated requests to /mcp under every session id the store may
\* have generated.
SessionRequests ==
    {Express("mcp", "POST", GoodHeader, sid, "2.0", "7", m) :
        sid \in 0 .. MaxMinted, m \in {"initialize", "ping"}}
    \cup {Express("mcp", "POST", GoodHeader, sid, "2.0", Undefined, "notifications/initialized") :
            sid \in 0 .. MaxMinted}
    \cup {Express("mcp", "DELETE", GoodHeader, sid, Undefined, Undefined, Undefined) :
            sid \in 1 .. MaxMinted}

SessionTickSteps == {1, SESSION_TTL}

\* The Express server's sessions: requests, the sweep, and time passing.
SessionNext ==
    \/ \E q \in SessionRequests : ExpressReplyUpTo(1, q, MaxMinted)
    \/ Sweep
    \/ \E d \in SessionTickSteps : Tick(d)

SessionInit ==
    /\ clock = CACHE_TTL
    /\ ticks = 0
    /\ toolsCache = Null
    /\ cacheTimestamp = 0
    /\ mcpToolsCache = Null
    /\ discoveryCalls = 0
    /\ sourceStatus = [i \in Sources |-> "ok"]
    /\ envChanges = 0
    /\ stdioTools = NewArray(0, PassResult([i \in Sources |-> LoadTool(sourceStatus[i], i)]))
    /\ expectedToken = "secret"
    /\ sessions = NoSessions
    /\ nextSessionId = 1
    /\ stdioPc = "connected"
    /\ stdout = StartBanner \cup ConnectedBanner
    /\ req = [r \in Slots |-> IdleSlot]

SessionSpec == SessionInit /\ [][SessionNext]_vars

(* ------------------------------- claims ------------------------------- *)
\* Slot r starts a discoverTools call in this step.
StartsCall(r) == Free(r) /\ req'[r].pc \in {"handler", "discovering"}

\* Slot r's discovery pass finishes in this step.
Commits(r) == req[r].pc = "discovering" /\ req'[r].pc = "handler"

\* The sources a pass loaded, in the order of the static source list.
LoadedInOrder(items, loads) ==
    /\ Len(items) = Cardinality({i \in Sources : loads[i] > 0})
    /\ \A k \in 1 .. Len(items) : items[k] \in Sources /\ loads[items[k]] = items[k]
    /\ \A k, l \in 1 .. Len(items) : k < l => items[k] < items[l]

\* C1: a discoverTools(forceRefresh=false) call that starts while a cache
\* exists whose build timestamp is less than CACHE_TTL old gets the cached
\* array itself (same identity, hence same order and content) and starts no
\* discovery pass, and a direct caller is handed that same array; a call
\* with forceRefresh=true always starts a new pass.
C1_CachedWithinTtl ==
    [][\A r \in Slots :
        /\ (StartsCall(r) /\ ~req'[r].q.force /\ toolsCache # Null
                /\ clock - cacheTimestamp < CACHE_TTL)
            => /\ req'[r].pc = "handler"
               /\ req'[r].tools = toolsCache
               /\ ~req'[r].started
               /\ discoveryCalls' = discoveryCalls
               /\ registry' = registry
        /\ (StartsCall(r) /\ req'[r].q.force)
            => /\ req'[r].pc = "discovering"
               /\ req'[r].started
               /\ discoveryCalls' = discoveryCalls + 1
        /\ (req[r].pc = "handler" /\ req'[r].pc = "done" /\ req[r].q.ep = "direct")
            => req'[r].resp = [returned |-> req[r].tools]
      ]_vars

\* C1 witness: one caller was served from the cache while another, with
\* forceRefresh=true, runs a new pass although the cache is still fresh.
C1_Witness ==
    \E r1, r2 \in Slots :
        /\ req[r1].pc = "done" /\ ~req[r1].started /\ ~req[r1].q.force
        /\ req[r1].tools = toolsCache
        /\ req[r2].pc = "discovering" /\ req[r2].q.force
        /\ req[r2].now - cacheTimestamp < CACHE_TTL

\* C2: a tools/list request that starts when the cache is CACHE_TTL old or
\* older starts exactly one discovery pass, timed at the request's now; no
\* step starts more than one pass; and when the pass finishes its array
\* replaces the cache, the MCP list is reset and the build timestamp becomes
\* that now.
C2_OnePassAfterTtl ==
    [][/\ \A r \in Slots :
            /\ (StartsCall(r) /\ req'[r].q.method = "tools/list" /\ toolsCache # Null
                    /\ clock - cacheTimestamp >= CACHE_TTL)
                => /\ req'[r].pc = "discovering"
                   /\ req'[r].started
                   /\ req'[r].now = clock
                   /\ req'[r].pass = discoveryCalls + 1
                   /\ discoveryCalls' = discoveryCalls + 1
            /\ Commits(r)
                => /\ toolsCache' = req'[r].tools
                   /\ toolsCache'.id = req[r].pass
                   /\ mcpToolsCache' = Null
                   /\ cacheTimestamp' = req[r].now
       /\ discoveryCalls' # discoveryCalls
            => /\ discoveryCalls' = discoveryCalls + 1
               /\ \E r \in Slots :
                    /\ StartsCall(r) /\ req'[r].pc = "discovering"
                    /\ \A o \in Slots \ {r} : req'[o] = req[o]
      ]_vars

\* C2 witness: a tools/list request found the cache stale and its pass has
\* loaded every source.
C2_Witness ==
    \E r \in Slots :
        /\ req[r].q.method = "tools/list" /\ req[r].pc = "discovering" /\ req[r].started
        /\ toolsCache # Null /\ req[r].now - cacheTimestamp >= CACHE_TTL
        /\ \A i \in Sources : req[r].loads[i] # Pending

\* C3: the cached array and the build timestamp change only together, in
\* the one step in which a pass whose imports have all settled finishes:
\* the new array is that pass's complete result and the timestamp that
\* pass's now. Every caller that obtains a tool sequence obtains either the
\* array cached before the step or the complete array of its own pass.
C3_AtomicRebuild ==
    [][/\ (toolsCache' # toolsCache \/ cacheTimestamp' # cacheTimestamp)
            => \E r \in Slots :
                /\ Commits(r)
                /\ \A i \in Sources : req[r].loads[i] # Pending
                /\ toolsCache'.id = req[r].pass
                /\ LoadedInOrder(toolsCache'.items, req[r].loads)
                /\ cacheTimestamp' = req[r].now
       /\ \A r \in Slots :
            (req'[r].pc = "handler" /\ req[r].pc # "handler" /\ req'[r].q.ep # "stdio")
                => \/ req'[r].tools = toolsCache /\ toolsCache # Null /\ Free(r)
                   \/ /\ Commits(r)
                      /\ req'[r].tools = toolsCache'
                      /\ LoadedInOrder(req'[r].tools.items, req[r].loads)
      ]_vars

\* C3 witness: a rebuild is half way (one import settled, one pending)
\* while another caller holds the array that is still cached.
C3_Witness ==
    \E r1, r2 \in Slots :
        /\ req[r1].pc = "discovering"
        /\ \E i, j \in Sources : req[r1].loads[i] # Pending /\ req[r1].loads[j] = Pending
        /\ req[r2].pc = "handler" /\ req[r2].tools = toolsCache

\* C4: an import that fails, or a module without apiTool, yields null and
\* leaves the pass running; the finished pass holds exactly the sources
\* that loaded, in the order of the static list, and a tools/list request
\* is answered with a result.
C4_FailedSourceSkipped ==
    [][\A r \in Slots :
        /\ \A i \in Sources :
            (req[r].pc = "discovering" /\ req[r].loads[i] = Pending /\ req'[r].loads[i] # Pending)
                => /\ req'[r].loads[i] = (IF sourceStatus[i] = "ok" THEN i ELSE 0)
                   /\ req'[r].pc = "discovering"
                   /\ \A j \in Sources \ {i} : req'[r].loads[j] = req[r].loads[j]
        /\ Commits(r)
            => /\ LoadedInOrder(req'[r].tools.items, req[r].loads)
               /\ toolsCache' = req'[r].tools
        /\ (req[r].pc = "handler" /\ req'[r].pc = "done" /\ req[r].q.method = "tools/list")
            => /\ req'[r].resp.status = HTTP_OK
               /\ "result" \in DOMAIN req'[r].resp.body
      ]_vars

\* C4 witness: a tools/list request was answered from a pass in which a
\* source failed and a later source of the list loaded.
C4_Witness ==
    \E r \in Slots :
        /\ req[r].pc = "done" /\ req[r].started /\ req[r].q.method = "tools/list"
        /\ req[r].tools.items # << >>
        /\ \E i \in Sources : i < req[r].tools.items[1]
        /\ "result" \in DOMAIN req[r].resp.body

\* A finished request that reached the JSON-RPC dispatch of an HTTP endpoint:
\* a POST that passed authentication and carried a JSON object.
Dispatched(r) ==
    /\ req[r].pc = "done"
    /\ req[r].q.ep \in {"main", "tools"}
    /\ req[r].q.verb = "POST"
    /\ authenticateRequest(req[r].q.header, expectedToken)
    /\ req[r].q.body = "object"

\* The response is a JSON-RPC error envelope with this code and id.
IsJsonRpcError(resp, code, id) ==
    /\ "error" \in DOMAIN resp.body
    /\ resp.body.error.code = code
    /\ resp.body.id = id

KnownMethods(ep) == IF ep = "main" THEN MainMethods ELSE ToolsMethods

\* The arguments of q lack a key the tool requires.
LacksRequired(tool, args) ==
    \E k \in 1 .. Len(Required(tool)) : args = NoArgs \/ Required(tool)[k] \notin args.keys

\* C5: a tools/call that selects a discovered tool and whose arguments lack
\* a required key ends in a missing-parameter error naming the key, and the
\* tool's function was not called, on the HTTP executor and on STDIO.
C5_MissingParameterRejected ==
    \A r \in Slots :
        (/\ req[r].pc = "done" /\ req[r].q.method = "tools/call"
         /\ req[r].tools # Null /\ req[r].q.name # Undefined
         /\ FindTool(req[r].tools.items, req[r].q.name) # 0
         /\ LacksRequired(FindTool(req[r].tools.items, req[r].q.name), req[r].q.args))
        => /\ ~req[r].invoked
           /\ IF req[r].q.ep = "stdio"
              THEN /\ "thrown" \in DOMAIN req[r].resp
                   /\ req[r].resp.thrown.message = "Missing required parameter: action"
              ELSE /\ "error" \in DOMAIN req[r].resp.body
                   /\ req[r].resp.body.error.data.message = "Missing required parameter: action"

\* C6: a tools/call with an id whose name matches no discovered tool is
\* answered with a JSON-RPC error envelope that carries the request's id,
\* and no tool function was called.
C6_UnknownToolError ==
    \A r \in Slots :
        (/\ Dispatched(r) /\ req[r].q.jsonrpc = "2.0" /\ req[r].q.method = "tools/call"
         /\ req[r].q.id # Undefined /\ req[r].q.name # Undefined /\ req[r].tools # Null
         /\ FindTool(req[r].tools.items, req[r].q.name) = 0)
        => /\ ~req[r].invoked
           /\ "error" \in DOMAIN req[r].resp.body
           /\ req[r].resp.body.id = req[r].q.id

\* C7: a JSON object whose jsonrpc member is missing or not "2.0" is
\* answered with error code -32600 and the request's id, null when it had
\* none.
C7_InvalidVersionRejected ==
    \A r \in Slots :
        (Dispatched(r) /\ req[r].q.jsonrpc # "2.0")
        => IsJsonRpcError(req[r].resp, INVALID_REQUEST,
                          IF req[r].q.id = Undefined THEN JsonNull ELSE req[r].q.id)

\* C8: a tools/call without a name is answered with error code -32602 and
\* the request's id, and the request started no discovery pass and called
\* no tool.
C8_MissingNameRejectedFirst ==
    \A r \in Slots :
        (/\ Dispatched(r) /\ req[r].q.jsonrpc = "2.0" /\ req[r].q.method = "tools/call"
         /\ req[r].q.name = Undefined)
        => /\ IsJsonRpcError(req[r].resp, INVALID_PARAMS, req[r].q.id)
           /\ ~req[r].started
           /\ ~req[r].invoked

\* C9: a request naming a method the endpoint's dispatcher does not know is
\* answered with error code -32601 and the request's id, and neither asked
\* for the tools nor called one.
C9_UnknownMethodRejected ==
    \A r \in Slots :
        (/\ Dispatched(r) /\ req[r].q.jsonrpc = "2.0" /\ req[r].q.method # Undefined
         /\ req[r].q.method \notin KnownMethods(req[r].q.ep))
        => /\ IsJsonRpcError(req[r].resp, METHOD_NOT_FOUND, req[r].q.id)
           /\ req[r].tools = Null
           /\ ~req[r].started
           /\ ~req[r].invoked

\* C10: when the called tool throws, the error sent to the client has the
\* thrown error's code if it has one; otherwise it has code -32603 and the
\* thrown error's message as its message.
C10_ThrownErrorMapping ==
    \A r \in Slots :
        (req[r].pc = "done" /\ req[r].err # Null)
        => LET sent == IF req[r].q.ep = "stdio" THEN req[r].resp.thrown
                       ELSE req[r].resp.body.error
           IN  IF "code" \in DOMAIN req[r].err
               THEN sent.code = req[r].err.code
               ELSE sent.code = INTERNAL_ERROR /\ sent.message = req[r].err.message

\* A finished POST that passed authentication on an HTTP endpoint and
\* carried a JSON array.
DispatchedBatch(r) ==
    /\ req[r].pc = "done"
    /\ req[r].q.ep \in {"main", "tools"}
    /\ req[r].q.verb = "POST"
    /\ authenticateRequest(req[r].q.header, expectedToken)
    /\ req[r].q.body = "array"

\* The ids of the elements of a batch that have one, in batch order.
AnsweredIds(batch) ==
    LET withId == SelectSeq(batch, LAMBDA e : e.id # Undefined)
    IN  [k \in 1 .. Len(withId) |-> withId[k].id]

\* C11: a posted JSON array is answered with an array that has one entry
\* for each element with an id, none for notifications, in the order of the
\* elements.
C11_BatchAnswered ==
    \A r \in Slots :
        DispatchedBatch(r)
        => /\ "entries" \in DOMAIN req[r].resp.body
           /\ [k \in 1 .. Len(req[r].resp.body.entries) |-> req[r].resp.body.entries[k].id]
                = AnsweredIds(req[r].q.batch)

\* C12: a message without an id is never answered with a JSON-RPC result
\* or error envelope: the POST that carried it gets status 204 and no body.
C12_NotificationUnanswered ==
    \A r \in Slots :
        (Dispatched(r) /\ req[r].q.jsonrpc = "2.0" /\ req[r].q.id = Undefined)
        => /\ req[r].resp.status = HTTP_NO_CONTENT
           /\ req[r].resp.body = Null

\* C13: an authenticated POST of a ping request with id n is answered with
\* the result {pong: true} under the same id.
C13_PingPong ==
    \A r \in Slots :
        (/\ Dispatched(r) /\ req[r].q.jsonrpc = "2.0" /\ req[r].q.method = "ping"
         /\ req[r].q.id # Undefined)
        => req[r].resp.body = createJsonRpcResponse(req[r].q.id, [pong |-> TRUE])

\* C19: when the called tool's function throws, the request ends with a
\* JSON-RPC error of code -32603 that carries the thrown message (in
\* data.message on the HTTP endpoints, after "API error: " on STDIO), and
\* the server goes on to accept the next request.
C19_ToolErrorInternal ==
    \A r \in Slots :
        (req[r].pc = "done" /\ req[r].err # Null)
        => /\ IF req[r].q.ep = "stdio"
              THEN /\ "thrown" \in DOMAIN req[r].resp
                   /\ req[r].resp.thrown.code = INTERNAL_ERROR
                   /\ req[r].resp.thrown.message = "API error: " \o req[r].err.message
              ELSE /\ "error" \in DOMAIN req[r].resp.body
                   /\ req[r].resp.body.error.code = INTERNAL_ERROR
                   /\ "data" \in DOMAIN req[r].resp.body.error
                   /\ req[r].resp.body.error.data.message = req[r].err.message
           /\ ENABLED (\E q \in DispatchRequests : Reply(r, q) \/ StdioRequest(r, q))

\* C19 witness: a tool was called over HTTP and threw, and the request has
\* been answered.
C19_Witness ==
    \E r \in Slots :
        /\ req[r].pc = "done" /\ req[r].invoked /\ req[r].err # Null
        /\ req[r].q.ep = "main"
        /\ "error" \in DOMAIN req[r].resp.body

(* --------------------------- STDIO process ---------------------------- *)
\* The life of the STDIO process: startup, requests one at a time, SIGINT.
StdioNext ==
    \/ StdioStart
    \/ StdioConnect
    \/ \E q \in StdioRequests : StdioRequest(1, q)
    \/ Respond(1)
    \/ Invoke(1)
    \/ \E outcome \in {ToolReturns} \cup ToolErrors : ToolSettle(1, outcome)
    \/ StdioInterrupt

StdioInit ==
    /\ clock = CACHE_TTL
    /\ ticks = 0
    /\ toolsCache = Null
    /\ cacheTimestamp = 0
    /\ mcpToolsCache = Null
    /\ discoveryCalls = 0
    /\ sourceStatus \in [Sources -> LoadStatus]
    /\ envChanges = 0
    /\ stdioTools = Null
    /\ expectedToken = Undefined
    /\ sessions = NoSessions
    /\ nextSessionId = 1
    /\ stdioPc = "start"
    /\ stdout = {}
    /\ req = [r \in Slots |-> IdleSlot]

StdioSpec == StdioInit /\ [][StdioNext]_vars

\* C18: over the whole life of the STDIO process everything written to
\* standard output is a JSON-RPC message.
C18_StdoutOnlyJsonRpc == \A chunk \in stdout : chunk.kind = "jsonrpc"

(* ---------------------------- HTTP servers ---------------------------- *)
\* The answered request of the server's slot.
Answered(r) == req[r].pc = "done" /\ req[r].q # NoRequest

\* A request that authentication stands in front of: everything on /mcp of
\* the Express server and on the main serverless endpoint but OPTIONS, and
\* the POSTs of the serverless tools endpoint.
Protected(q) ==
    \/ q.ep \in {"mcp", "main"} /\ q.verb # "OPTIONS"
    \/ q.ep = "tools" /\ q.verb = "POST"

WellFormed(header) ==
    /\ header # NoHeader
    /\ ToLowerCase(header.scheme) = "bearer"
    /\ header.token # ""

\* C14: on a protected endpoint a request with a well-formed Bearer header
\* gets 500 when no token is configured on the server; with a token
\* configured a missing or malformed header gets 401 and a wrong token gets
\* 401; a request without the configured token gets 401 or 500 and nothing
\* else.
C14_AuthFailsClosed ==
    \A r \in Slots :
        Answered(r) /\ Protected(req[r].q) =>
            LET header == req[r].q.header
                status == req[r].resp.status
            IN  /\ expectedToken = Undefined /\ WellFormed(header)
                        => status = HTTP_INTERNAL_SERVER_ERROR
                /\ expectedToken # Undefined /\ ~WellFormed(header)
                        => status = HTTP_UNAUTHORIZED
                /\ expectedToken # Undefined /\ WellFormed(header)
                     /\ header.token # expectedToken
                        => status = HTTP_UNAUTHORIZED
                /\ expectedToken = Undefined \/ ~WellFormed(header)
                     \/ header.token # expectedToken
                        => status \in {HTTP_UNAUTHORIZED, HTTP_INTERNAL_SERVER_ERROR}

C17_HealthReadyOpen ==
    [][\A r \in Slots :
          /\ req'[r].q.ep \in {"health", "ready"}
          /\ req'[r].q.verb = "GET"
          /\ req'[r] # req[r]
          => /\ UNCHANGED store
             /\ req'[r].q.ep = "health" => req'[r].pc = "done"
             /\ req'[r].pc = "done" => req'[r].resp.status = HTTP_OK
             /\ req'[r].q.ep = "ready" /\ req'[r].pc = "done"
                    => req'[r].resp.body.toolsCount = Len(req'[r].tools.items)
             /\ req'[r].q.ep = "ready" /\ Free(r)
                  /\ CacheValid(FALSE, toolsCache, cacheTimestamp, clock)
                    => /\ req'[r].pc = "handler"
                       /\ req'[r].tools = toolsCache
                       /\ UNCHANGED <<registry, discoveryCalls>>]_vars

C17_Witness ==
    /\ Answered(1)
    /\ req[1].q.ep = "ready" /\ req[1].q.header = NoHeader
    /\ expectedToken = Undefined
    /\ ~req[1].started
    /\ discoveryCalls = 1
    /\ req[1].resp.body.toolsCount = NumSources

\* An authenticated POST to /mcp, the requests that reach getOrCreate.
ReachesStore(q) ==
    /\ q.ep = "mcp" /\ q.verb = "POST"
    /\ "next" \in DOMAIN authMiddleware(q, expectedToken)

\* C20: getOrCreate never files a session under an id the caller supplied
\* that the store does not hold: the request gets a new session under an
\* id that is neither the supplied one nor one in use, reported as new,
\* and the sessions already stored stay as they are; for an id the store
\* holds it returns that session, not new, with lastActivity set to now,
\* and creates nothing.
C20_NoSessionFixation ==
    [][\A r \in Slots, q \in ExpressRequests :
          ReachesStore(q) /\ ExpressReply(r, q) =>
              LET id == req'[r].resp.sessionId
              IN  IF q.session \in DOMAIN sessions
                  THEN /\ id = q.session
                       /\ ~req'[r].resp.isNew
                       /\ DOMAIN sessions' = DOMAIN sessions
                       /\ sessions'[id].lastActivity = clock
                       /\ sessions'[id].createdAt = sessions[id].createdAt
                       /\ nextSessionId' = nextSessionId
                  ELSE /\ id # q.session
                       /\ id \notin DOMAIN sessions
                       /\ req'[r].resp.isNew
                       /\ DOMAIN sessions' = DOMAIN sessions \cup {id}
                       /\ sessions'[id].createdAt = clock
                       /\ sessions'[id].lastActivity = clock
                       /\ \A old \in DOMAIN sessions : sessions'[old] = sessions[old]]_vars

C20_Witness ==
    /\ Answered(1)
    /\ ReachesStore(req[1].q)
    /\ req[1].q.session = GuessedId
    /\ req[1].resp.isNew
    /\ req[1].resp.sessionId \in DOMAIN sessions
    /\ GuessedId \notin DOMAIN sessions

(* ------------------------------ sessions ------------------------------ *)
\* The slot's request q is answered by this step of the session server.
SessionStep(r, q) == ExpressReplyUpTo(r, q, MaxMinted)

\* The ids the store has handed out so far.
Minted == 1 .. (nextSessionId - 1)

\* C21: DELETE of a stored session id is answered 204 and removes that
\* session and nothing else; DELETE of an id the store does not hold is
\* answered 404 and changes nothing; an id that was handed out and is no
\* longer stored never comes back, and a POST carrying it gets a session
\* under a new id whose state is that of a new session, apart from what
\* the request itself sets.
C21_TerminatedNotRevived ==
    [][/\ \A id \in Minted : id \notin DOMAIN sessions => id \notin DOMAIN sessions'
       /\ \A r \in Slots, q \in SessionRequests :
            SessionStep(r, q) =>
                CASE q.verb = "DELETE" /\ q.session \in DOMAIN sessions ->
                        /\ req'[r].resp.status = HTTP_NO_CONTENT
                        /\ DOMAIN sessions' = DOMAIN sessions \ {q.session}
                        /\ \A id \in DOMAIN sessions' : sessions'[id] = sessions[id]
                  [] q.verb = "DELETE" /\ q.session \notin DOMAIN sessions ->
                        /\ req'[r].resp.status = HTTP_NOT_FOUND
                        /\ UNCHANGED store
                  [] q.verb = "POST" /\ q.session \in Minted \ DOMAIN sessions ->
                        LET id == req'[r].resp.sessionId
                        IN  /\ req'[r].resp.isNew
                            /\ id \notin Minted
                            /\ sessions'[id].createdAt = clock
                            /\ sessions'[id].initialized
                                 = (q.method \in {"initialize", "notifications/initialized"})
                            /\ sessions'[id].clientInfo
                                 = IF q.method = "initialize" THEN ClientInfo ELSE Null
                  [] OTHER -> TRUE]_vars

C21_Witness ==
    /\ Answered(1)
    /\ req[1].q.verb = "POST" /\ req[1].q.session = 1 /\ req[1].q.method = "ping"
    /\ ticks = 0
    /\ 1 \notin DOMAIN sessions
    /\ req[1].resp.isNew /\ req[1].resp.sessionId = 2
    /\ ~sessions[2].initialized

\* C22: a sweep removes exactly the stored sessions whose last activity
\* is more than the 30-minute TTL ago; every other session, one touched
\* exactly the TTL ago included, is still stored afterwards with all its
\* fields as they were, and the sweep adds nothing.
C22_SweepEvictsExpired ==
    [][Sweep =>
          /\ DOMAIN sessions' \subseteq DOMAIN sessions
          /\ \A id \in DOMAIN sessions :
                IF clock - sessions[id].lastActivity > SESSION_TTL
                THEN id \notin DOMAIN sessions'
                ELSE id \in DOMAIN sessions' /\ sessions'[id] = sessions[id]]_vars

C22_Witness ==
    /\ nextSessionId = 3
    /\ 1 \notin DOMAIN sessions
    /\ 2 \in DOMAIN sessions
    /\ clock - sessions[2].createdAt > SESSION_TTL
    /\ sessions[2].lastActivity = sessions[2].createdAt + SESSION_TTL
    /\ sessions[2].initialized
    /\ Answered(1) /\ req[1].q.verb = "POST" /\ req[1].q.session = 2

\* C23: a session's initialized flag is false when a request other than
\* initialize and notifications/initialized creates it, is true after an
\* initialize or notifications/initialized request, is left as it is by
\* every other request, and never goes from true to false while the
\* session is stored; a request is answered the same whatever the flag:
\* with a result when it has an id, with 204 when it is a notification.
C23_InitializedMonotone ==
    [][/\ \A id \in DOMAIN sessions \cap DOMAIN sessions' :
            sessions[id].initialized => sessions'[id].initialized
       /\ \A r \in Slots, q \in SessionRequests :
            q.verb = "POST" /\ SessionStep(r, q) =>
                LET id == req'[r].resp.sessionId
                    sets == q.method \in {"initialize", "notifications/initialized"}
                IN  /\ sets => sessions'[id].initialized
                    /\ ~sets /\ req'[r].resp.isNew => ~sessions'[id].initialized
                    /\ ~sets /\ ~req'[r].resp.isNew
                          => sessions'[id].initialized = sessions[id].initialized
                    /\ IF q.id = Undefined
                       THEN req'[r].resp.status = HTTP_NO_CONTENT
                       ELSE /\ req'[r].resp.status = HTTP_OK
                            /\ "result" \in DOMAIN req'[r].resp.body]_vars

C23_Witness ==
    /\ Answered(1)
    /\ req[1].q.verb = "POST" /\ req[1].q.method = "ping" /\ req[1].q.session = 1
    /\ ~req[1].resp.isNew
    /\ sessions[1].initialized
    /\ sessions[1].clientInfo = Null

(* -------------------------------- codec ------------------------------- *)
\* The arguments createJsonRpcError is called with: ids as the requests
\* carry them, the error codes, and for data nothing, null, falsy values
\* and an object.
ErrorIds == {JsonNull, "7", "8", Undefined}
ErrorCodes == {PARSE_ERROR, INVALID_REQUEST, METHOD_NOT_FOUND, INVALID_PARAMS, INTERNAL_ERROR}
ErrorMessages == {"Internal error", "Unauthorized", ""}
ErrorData ==
    {NoData, Null, [tag |-> "number", n |-> 0], [tag |-> "string", s |-> ""],
     [tag |-> "boolean", b |-> FALSE], [message |-> "boom"]}

\* A call of createJsonRpcError; the slot keeps the arguments and what the
\* call returned.
CallCreateJsonRpcError(r, id, code, message, data) ==
    /\ Free(r)
    /\ req' = [req EXCEPT ![r] =
                  DoneSlot([IdleSlot EXCEPT
                               !.q = [call |-> "createJsonRpcError", id |-> id, code |-> code,
                                      message |-> message, data |-> data]],
                           createJsonRpcError(id, code, message, data))]
    /\ UNCHANGED <<registry, discoveryCalls, env, store, stdout>>

CodecNext ==
    \E id \in ErrorIds, code \in ErrorCodes, message \in ErrorMessages, data \in ErrorData :
        CallCreateJsonRpcError(1, id, code, message, data)

CodecSpec == DispatchInit /\ [][CodecNext]_vars

Called(r) == req[r].pc = "done" /\ "call" \in DOMAIN req[r].q

\* What createJsonRpcError always returns: the envelope with the id, the
\* code and the message it was given.
ErrorEnvelope(r) ==
    /\ DOMAIN req[r].resp = {"jsonrpc", "id", "error"}
    /\ req[r].resp.jsonrpc = "2.0"
    /\ req[r].resp.id = req[r].q.id
    /\ req[r].resp.error.code = req[r].q.code
    /\ req[r].resp.error.message = req[r].q.message

\* C24 as stated: createJsonRpcError returns the envelope without a data
\* key when data is not supplied, and with error.data equal to the
\* supplied value for every supplied value.
C24_DataAsSupplied ==
    \A r \in Slots :
        Called(r) =>
            /\ ErrorEnvelope(r)
            /\ IF req[r].q.data = NoData
               THEN DOMAIN req[r].resp.error = {"code", "message"}
               ELSE /\ DOMAIN req[r].resp.error = {"code", "message", "data"}
                    /\ req[r].resp.error.data = req[r].q.data

\* C24, amended: createJsonRpcError returns the envelope without a data
\* key when data is not supplied or is null, and with error.data equal to
\* the supplied value for every other supplied value, falsy ones included.
C24_DataUnlessNull ==
    \A r \in Slots :
        Called(r) =>
            /\ ErrorEnvelope(r)
            /\ IF req[r].q.data \in {NoData, Null}
               THEN DOMAIN req[r].resp.error = {"code", "message"}
               ELSE /\ DOMAIN req[r].resp.error = {"code", "message", "data"}
                    /\ req[r].resp.error.data = req[r].q.data

C24_Witness ==
    /\ Called(1)
    /\ req[1].q.data = Null
    /\ "data" \notin DOMAIN req[1].resp.error

(* ------------------------- omitted arguments -------------------------- *)
\* The same request with arguments = {}.
WithEmptyArguments(q) == [q EXCEPT !.args = ObjArgs({})]

\* C25: a tools/call without arguments that has reached its handler ends
\* as the same request with arguments = {} does, on the HTTP endpoints and
\* on STDIO: where that one is answered before any tool runs (a missing
\* required parameter among the cases) this one gets the same answer and
\* calls no tool, and where that one calls the tool this one calls it too.
C25_OmittedArgumentsDefault ==
    \A r \in Slots :
        (/\ req[r].pc = "done"
         /\ req[r].q.ep \in {"main", "tools", "stdio"}
         /\ req[r].q.method = "tools/call"
         /\ req[r].q.args = NoArgs
         /\ req[r].tools # Null)
        => LET same == HandlerStep(WithEmptyArguments(req[r].q), req[r].tools, toolsCache,
                                   mcpToolsCache)
           IN  IF "tool" \in DOMAIN same
               THEN req[r].invoked
               ELSE ~req[r].invoked /\ req[r].resp = same.resp

(* ------------------------ serverless endpoints ------------------------ *)
ServerlessEndpoints == {"main", "tools", "capabilities", "metrics"}

\* C26: on each of the four serverless endpoints a request other than
\* OPTIONS whose Authorization header does not carry the configured token
\* is answered 401, and no discovery pass and no tool call was started for
\* it.
C26_AuthBeforeAnything ==
    \A r \in Slots :
        (/\ req[r].pc = "done"
         /\ req[r].q.ep \in ServerlessEndpoints
         /\ req[r].q.verb # "OPTIONS"
         /\ ~authenticateRequest(req[r].q.header, expectedToken))
        => /\ req[r].resp.status = HTTP_UNAUTHORIZED
           /\ ~req[r].started
           /\ ~req[r].invoked
           /\ req[r].tools = Null

(* --------------------------- memoized MCP list ------------------------ *)
\* C27: whenever the memoized MCP list is set, it is the projection of the
\* tool array that is cached at that moment, so that a tools/list served
\* from the memo lists the cached tools.
C27_MemoMatchesCache ==
    mcpToolsCache # Null =>
        /\ toolsCache # Null
        /\ mcpToolsCache.items = McpProjection(toolsCache.items)

(* --------------------------- registry order -------------------------- *)
\* C28: no step lowers the registry's build timestamp, and no step
\* replaces the cached array by the array of a pass that started before
\* the pass whose array is cached.
C28_RegistryNeverRegresses ==
    [][/\ cacheTimestamp' >= cacheTimestamp
       /\ toolsCache # Null /\ toolsCache' # Null => toolsCache'.id >= toolsCache.id]_vars

\* The discovery passes in flight that a call without forceRefresh started.
PassesInFlight == {r \in Slots : req[r].pc = "discovering" /\ ~req[r].q.force}

\* C29: at most one discovery pass started by discoverTools(false) is in
\* flight at any time.
C29_SinglePassInFlight == Cardinality(PassesInFlight) <= 1

(* ------------------------------ envelopes ----------------------------- *)
\* C30: every authenticated POST to the main endpoint, whatever its body,
\* is answered with status 200 and one JSON-RPC envelope: jsonrpc "2.0"
\* and exactly one of result and error.
C30_AlwaysOneEnvelope ==
    \A r \in Slots :
        (/\ req[r].pc = "done"
         /\ req[r].q.ep = "main"
         /\ req[r].q.verb = "POST"
         /\ authenticateRequest(req[r].q.header, expectedToken))
        => /\ req[r].resp.status = HTTP_OK
           /\ "jsonrpc" \in DOMAIN req[r].resp.body
           /\ req[r].resp.body.jsonrpc = "2.0"
           /\ ("result" \in DOMAIN req[r].resp.body) # ("error" \in DOMAIN req[r].resp.body)

====
